---- MODULE Spec2Model ----
(***************************************************************************)
(* A model of src/scryfall.py: get_data (bulk-data download), flatten_list *)
(* and read_data (normalise and aggregate by name) and update_db (insert,  *)
(* or update on primary-key conflict, inside one connection).              *)
(*                                                                         *)
(* Python strings are sequences of one-character strings, so that joining, *)
(* splitting and iterating a string are computed and not assumed.          *)
(***************************************************************************)
EXTENDS FiniteSets, Integers, Sequences, TLC

VARIABLES
    pc,             \* position of the running function
    raised,         \* name of the exception that ended the run, "" if none
    logged,         \* messages handed to logger.error / printed by the exceptions
    data_type,      \* get_data: the BulkDataType requested
    response,       \* get_data: metadata response [status_code, data]
    file_url,       \* get_data: download_uri selected ("" is None / empty)
    file_response,  \* get_data: download response [status_code]
    files,          \* the snapshot files on disk, each [name, content]
    file,           \* main: the snapshot path it was given or got ("" is None)
    color_list,     \* flatten_list: the argument of the first call
    flat1,          \* flatten_list: result of the first call
    flat2,          \* flatten_list: result of the call on flat1
    records,        \* read_data: the objects of the json array
    canon,          \* read_data: the frame after cleaning and fillna (line 159)
    df,             \* read_data: the frame returned (line 164)
    exists,         \* update_db: whether table "scryfall" exists
    table,          \* update_db: committed rows of the table
    txn,            \* update_db: rows as the open connection sees them
    rows,           \* update_db: data.to_dict(orient="records")
    idx,            \* update_db: index of the next row of the loop
    run,            \* number of the update_db call in progress
    table0,         \* committed rows when the current call began
    table1          \* committed rows when the first call returned

vars == <<pc, raised, logged, data_type, response, file_url, file_response, files, file,
          color_list, flat1, flat2, records, canon, df,
          exists, table, txn, rows, idx, run, table0, table1>>

getVars == <<data_type, response, file_url, file_response, files, file>>
flatVars == <<color_list, flat1, flat2>>
readVars == <<records, canon, df>>
dbVars == <<exists, table, txn, rows, idx, run, table0, table1>>

-----------------------------------------------------------------------------
(* Bounds of the model *)

\* inner lists of a colors value given to flatten_list
MaxInner == 2
\* records of a snapshot given to read_data
MaxRecords == 2
\* calls of update_db in a row
MaxRuns == 2

-----------------------------------------------------------------------------
(* Python values *)

\* the separator of ", ".join
Sep == <<",", " ">>

\* pandas null (NaN / None / pd.NA) in a cell
NaN == <<"NaN">>

\* a key that the json object does not have
Missing == <<"Missing">>

\* None as an element of an inner list
None == "None"

PyList(l) == [t |-> "list", v |-> l]
PyStr(s) == [t |-> "str", v |-> s]
PyNaN == [t |-> "nan", v |-> <<>>]

Range(s) == {s[i] : i \in 1..Len(s)}

\* all orders in which a set can be iterated
RECURSIVE Orders(_)
Orders(S) ==
    IF S = {} THEN {<<>>} ELSE UNION {{<<x>> \o p : p \in Orders(S \ {x})} : x \in S}

RECURSIVE JoinFrom(_, _)
JoinFrom(parts, i) ==
    IF i > Len(parts) THEN <<>>
    ELSE IF i = Len(parts) THEN parts[i]
    ELSE parts[i] \o Sep \o JoinFrom(parts, i + 1)

\* ", ".join(parts) for a list of strings
Join(parts) == JoinFrom(parts, 1)

\* ", ".join(S) for a set of strings S: one result per iteration order
JoinOrders(S) == {Join(p) : p \in Orders(S)}

-----------------------------------------------------------------------------
(* flatten_list *)

\* iterating a value: the items of a list, the characters of a string
Iter(x) == IF x.t = "str" THEN {<<x.v[i]>> : i \in 1..Len(x.v)} ELSE Range(x.v)

\* [str(element) for innerList in color_list for element in innerList
\*  if pd.notna(element)], as the set built from it on line 140
Elements(x) == {<<e>> : e \in UNION {Range(inner) : inner \in Iter(x)} \ {None}}

\* the empty list or a pandas null
IsEmptyInputOrNotList(x) == (x.t = "list" /\ x.v = <<>>) \/ x.t # "list"
IsEmptyInput(x) == (x.t = "list" /\ x.v = <<>>) \/ (x.t # "list" /\ x.t = "nan")

\* the strings flatten_list(x) can return (the set's iteration order is not fixed)
flatten_list(x) == IF IsEmptyInput(x) THEN {<<>>} ELSE JoinOrders(Elements(x))

-----------------------------------------------------------------------------
(* Snapshot files *)

\* a float cell, in tenths (1.0 is 10), or the null in its place
Float(tenths) == [t |-> "float", v |-> tenths]
FloatNaN == [t |-> "nan", v |-> 0]
FloatMissing == [t |-> "missing", v |-> 0]

RECURSIVE SeqsUpTo(_, _)
SeqsUpTo(S, n) ==
    IF n = 0 THEN {<<>>}
    ELSE SeqsUpTo(S, n - 1) \cup {Append(s, x) : s \in {t \in SeqsUpTo(S, n - 1) : Len(t) = n - 1}, x \in S}

\* card names
Names == {<<"A">>, <<"B">>}

\* objects of a snapshot file, some without the name key
MainRecords ==
    [name : Names \cup {Missing},
     set_name : {<<"B">>},
     rarity : {<<"r">>},
     colors : {PyList(<<<<"R">>>>)},
     cmc : {Float(10)},
     type_line : {<<"I">>}]

\* the json arrays a snapshot file can hold
Contents == SeqsUpTo(MainRecords, MaxRecords)

-----------------------------------------------------------------------------
(* Values of the variables a specification does not use *)

IdleGet ==
    /\ data_type = ""
    /\ response = [status_code |-> 0, data |-> <<>>]
    /\ file_url = ""
    /\ file_response = [status_code |-> 0, content |-> <<>>]
    /\ files = {}
    /\ file = ""

IdleFlatten ==
    /\ color_list = PyNaN
    /\ flat1 = <<>>
    /\ flat2 = <<>>

IdleRead ==
    /\ records = <<>>
    /\ canon = <<>>
    /\ df = <<>>

IdleDb ==
    /\ exists = FALSE
    /\ table = {}
    /\ txn = {}
    /\ rows = <<>>
    /\ idx = 0
    /\ run = 0
    /\ table0 = {}
    /\ table1 = {}

-----------------------------------------------------------------------------
(* get_data *)

\* the status code get_data accepts (lines 99 and 114)
HTTP_OK == 200

StatusCodes == {HTTP_OK, 404, 500}

\* BulkDataType
BulkDataType == {"oracle_cards", "unique_artwork", "default_cards", "all_cards", "rulings"}

\* descriptors the metadata document may list; download_uri "" is an empty uri
Descriptors ==
    [type : {"default_cards", "rulings"}, download_uri : {"", "https://data/file"}]

MetadataDocs == {<<>>} \cup {<<d>> : d \in Descriptors}
                  \cup {<<d, e>> : d \in Descriptors, e \in Descriptors}

\* BulkDataError.__init__: the message is logged when the exception is built
ErrorMessage(exc, text, arg) == [exc |-> exc, text |-> text, arg |-> arg]

\* lines 104-108: the download_uri of the first descriptor of the type, "" if none
RECURSIVE FindUrl(_, _, _)
FindUrl(data, type, i) ==
    IF i > Len(data) THEN ""
    ELSE IF data[i].type = type THEN data[i].download_uri
    ELSE FindUrl(data, type, i + 1)

\* the status code get_data puts in DownloadError (line 115)
DownloadErrorStatus(resp, file_resp) == resp.status_code

\* lines 98-100: the request for the metadata document
FetchMetadata ==
    /\ pc = "get_data"
    /\ \E status \in StatusCodes, data \in MetadataDocs :
        /\ response' = [status_code |-> status, data |-> data]
        /\ IF status # HTTP_OK
           THEN /\ raised' = "FetchDataError"
                /\ logged' = Append(logged,
                        ErrorMessage("FetchDataError", "Failed to fetch bulk data. Status code: ", status))
                /\ pc' = "raised"
           ELSE /\ pc' = "find_type"
                /\ UNCHANGED <<raised, logged>>
    /\ UNCHANGED <<data_type, file_url, file_response, files, file, flatVars, readVars, dbVars>>

\* lines 103-110: select the descriptor of the requested type
FindDescriptor ==
    /\ pc = "find_type"
    /\ file_url' = FindUrl(response.data, data_type, 1)
    /\ IF file_url' = ""
       THEN /\ raised' = "DataTypeNotFoundError"
            /\ logged' = Append(logged,
                    ErrorMessage("DataTypeNotFoundError", "Data type not found in bulk data: ", data_type))
            /\ pc' = "raised"
       ELSE /\ pc' = "download"
            /\ UNCHANGED <<raised, logged>>
    /\ UNCHANGED <<data_type, response, file_response, files, file, flatVars, readVars, dbVars>>

\* lines 116-118: open(file_name, "wb") replaces the file of that name; the
\* name is the data type (the date prefix is the day of the run)
WriteFile(fs, name, content) ==
    {f \in fs : f.name # name} \cup {[name |-> name, content |-> content]}

\* lines 113-121: download the file and write the snapshot
Download ==
    /\ pc = "download"
    /\ \E status \in StatusCodes, content \in Contents :
        /\ file_response' = [status_code |-> status,
                             content |-> IF status = HTTP_OK THEN content ELSE <<>>]
        /\ IF status # HTTP_OK
           THEN /\ raised' = "DownloadError"
                /\ logged' = Append(logged,
                        ErrorMessage("DownloadError", "Failed to download the file. Status code: ",
                                     DownloadErrorStatus(response, file_response')))
                /\ pc' = "raised"
                /\ UNCHANGED files
           ELSE /\ files' = WriteFile(files, data_type, content)
                /\ pc' = "downloaded"
                /\ UNCHANGED <<raised, logged>>
    /\ UNCHANGED <<data_type, response, file_url, file, flatVars, readVars, dbVars>>

InitGet ==
    /\ pc = "get_data"
    /\ raised = ""
    /\ logged = <<>>
    /\ data_type \in BulkDataType
    /\ response = [status_code |-> 0, data |-> <<>>]
    /\ file_url = ""
    /\ file_response = [status_code |-> 0, content |-> <<>>]
    /\ files = {}
    /\ file = ""
    /\ IdleFlatten /\ IdleRead /\ IdleDb

NextGet == FetchMetadata \/ FindDescriptor \/ Download

SpecGet == InitGet /\ [][NextGet]_vars

-----------------------------------------------------------------------------
(* flatten_list applied to a colors value, then to its own result *)

\* inner lists of a colors value; a str item iterates like the list of its characters
InnerLists ==
    {<<>>, <<"R">>, <<"G">>, <<"B">>, <<"R", "G">>, <<"G", "R">>, <<"R", None>>, <<None>>}

ColorInputs == {PyNaN} \cup {PyList(l) : l \in SeqsUpTo(InnerLists, MaxInner)}

\* line 155 on one cell
FlattenOnce ==
    /\ pc = "flatten"
    /\ \E out \in flatten_list(color_list) : flat1' = out
    /\ pc' = "flatten_again"
    /\ UNCHANGED <<raised, logged, color_list, flat2, getVars, readVars, dbVars>>

\* flatten_list called on the string the first call returned
FlattenAgain ==
    /\ pc = "flatten_again"
    /\ \E out \in flatten_list(PyStr(flat1)) : flat2' = out
    /\ pc' = "flattened"
    /\ UNCHANGED <<raised, logged, color_list, flat1, getVars, readVars, dbVars>>

InitFlatten ==
    /\ pc = "flatten"
    /\ raised = ""
    /\ logged = <<>>
    /\ color_list \in ColorInputs
    /\ flat1 = <<>>
    /\ flat2 = <<>>
    /\ IdleGet /\ IdleRead /\ IdleDb

NextFlatten == FlattenOnce \/ FlattenAgain

SpecFlatten == InitFlatten /\ [][NextFlatten]_vars

-----------------------------------------------------------------------------
(* Reading a joined string back *)

\* the members of a ", "-joined string
RECURSIVE SplitFrom(_, _, _)
SplitFrom(s, start, i) ==
    IF i > Len(s) THEN {SubSeq(s, start, Len(s))}
    ELSE IF i < Len(s) /\ SubSeq(s, i, i + 1) = Sep
         THEN {SubSeq(s, start, i - 1)} \cup SplitFrom(s, i + 2, i + 2)
         ELSE SplitFrom(s, start, i + 1)

Split(s) == IF s = <<>> THEN {} ELSE SplitFrom(s, 1, 1)

Chars(s) == {<<s[i]>> : i \in 1..Len(s)}

-----------------------------------------------------------------------------
(* read_data *)

keep_cols == <<"name", "set_name", "rarity", "colors", "cmc", "type_line">>

\* keep_cols[1:]
ValueCols == {keep_cols[i] : i \in 2..Len(keep_cols)}

\* a key of the json object that is absent, for the colors column
PyMissing == [t |-> "missing", v |-> <<>>]

\* whether the json object has the key
HasKey(r, c) == IF c \in {"colors", "cmc"} THEN r[c].t # "missing" ELSE r[c] # Missing

\* lines 148-152: a column exists when some object has the key; df[keep_cols]
\* raises KeyError when a column of keep_cols does not exist
MissingColumns(recs) ==
    {keep_cols[k] : k \in {j \in 1..Len(keep_cols) : \A i \in 1..Len(recs) : ~HasKey(recs[i], keep_cols[j])}}

\* pd.read_json: an absent key is a null cell
ReadJsonCell(v) == IF v = Missing THEN NaN ELSE v
ReadJsonColors(v) == IF v.t = "missing" THEN PyNaN ELSE v
ReadJsonCmc(v) == IF v.t = "missing" THEN FloatNaN ELSE v

\* line 159: df.fillna("")
FillNa(v) == IF v = NaN THEN <<>> ELSE v

Digits == <<"0", "1", "2", "3", "4", "5", "6", "7", "8", "9">>

\* str(n) for an int n >= 0
RECURSIVE IntToStr(_)
IntToStr(n) ==
    IF n < 10 THEN <<Digits[n + 1]>> ELSE IntToStr(n \div 10) \o <<Digits[(n % 10) + 1]>>

\* line 156 and line 159: str(int(x)) if pd.notna(x) else pd.NA, then fillna("")
CmcStr(x) == IF x.t = "nan" THEN <<>> ELSE IntToStr(x.v \div 10)

\* the distinct colors cells of the snapshot
ColorCells(recs) == {ReadJsonColors(recs[i].colors) : i \in 1..Len(recs)}

\* line 155: the results flatten_list may give, one per distinct cell
FlattenChoices(recs) ==
    {f \in [ColorCells(recs) -> UNION {flatten_list(x) : x \in ColorCells(recs)}] :
        \A x \in ColorCells(recs) : f[x] \in flatten_list(x)}

\* lines 152-159: the frame after cleaning, with f the results of flatten_list
Clean(recs, f) ==
    [i \in 1..Len(recs) |->
        [name |-> FillNa(ReadJsonCell(recs[i].name)),
         set_name |-> FillNa(ReadJsonCell(recs[i].set_name)),
         rarity |-> FillNa(ReadJsonCell(recs[i].rarity)),
         colors |-> FillNa(f[ReadJsonColors(recs[i].colors)]),
         cmc |-> CmcStr(ReadJsonCmc(recs[i].cmc)),
         type_line |-> FillNa(ReadJsonCell(recs[i].type_line))]]

\* the order of one-character strings
Alphabet == <<" ", ",", "0", "1", "2", "3", "A", "B", "C", "G", "I", "R", "r", "u">>
Ord(c) == CHOOSE i \in 1..Len(Alphabet) : Alphabet[i] = c

RECURSIVE StrLeq(_, _, _)
StrLeq(a, b, i) ==
    IF i > Len(a) THEN TRUE
    ELSE IF i > Len(b) THEN FALSE
    ELSE IF a[i] = b[i] THEN StrLeq(a, b, i + 1)
    ELSE Ord(a[i]) < Ord(b[i])

\* groupby sorts the group keys
RECURSIVE SortStrs(_)
SortStrs(S) ==
    IF S = {} THEN <<>>
    ELSE LET m == CHOOSE x \in S : \A y \in S : StrLeq(x, y, 1)
         IN <<m>> \o SortStrs(S \ {m})

\* line 160: groupby("name").agg(set): the set of a group's values in a column
GroupValuesLast(frame, n, c) ==
    LET last == CHOOSE i \in 1..Len(frame) :
                    frame[i].name = n /\ \A j \in 1..Len(frame) : frame[j].name = n => j <= i
    IN {frame[last][c]}
GroupValues(frame, n, c) == {frame[i][c] : i \in {j \in 1..Len(frame) : frame[j].name = n}}

\* line 162: [element for element in x if element != ""]
NonEmptyKeepAll(S) == S
NonEmpty(S) == S \ {<<>>}

\* line 162 for one group and column: one result per iteration order of the set
AggColumn(frame, n, c) == JoinOrders(NonEmpty(GroupValues(frame, n, c)))

\* the rows line 160-162 can produce for the group of name n
AggEntries(frame, n) ==
    [name : {n},
     set_name : AggColumn(frame, n, "set_name"),
     rarity : AggColumn(frame, n, "rarity"),
     colors : AggColumn(frame, n, "colors"),
     cmc : AggColumn(frame, n, "cmc"),
     type_line : AggColumn(frame, n, "type_line")]

RECURSIVE AggFrom(_, _, _)
AggFrom(frame, names, i) ==
    IF i > Len(names) THEN {<<>>}
    ELSE {<<e>> \o rest : e \in AggEntries(frame, names[i]), rest \in AggFrom(frame, names, i + 1)}

\* lines 160-164: the frames read_data can return for a cleaned frame
Aggregate(frame) == AggFrom(frame, SortStrs({frame[i].name : i \in 1..Len(frame)}), 1)

\* read_data (lines 146-164)
ReadData ==
    /\ pc = "read_data"
    /\ IF MissingColumns(records) # {}
       THEN /\ raised' = "KeyError"
            /\ pc' = "raised"
            /\ UNCHANGED <<canon, df>>
       ELSE /\ \E f \in FlattenChoices(records) :
                /\ canon' = Clean(records, f)
                /\ \E out \in Aggregate(canon') : df' = out
            /\ pc' = "read_done"
            /\ UNCHANGED raised
    /\ UNCHANGED <<logged, records, getVars, flatVars, dbVars>>

\* the objects of a snapshot
RawRecords ==
    [name : Names,
     set_name : {<<"A">>, <<"B">>},
     rarity : {<<"r">>, <<>>, NaN},
     colors : {PyNaN, PyList(<<<<"R", "G">>>>)},
     cmc : {FloatNaN, Float(10)},
     type_line : {<<"I">>}]

InitRead ==
    /\ pc = "read_data"
    /\ raised = ""
    /\ logged = <<>>
    /\ records \in SeqsUpTo(RawRecords, MaxRecords)
    /\ canon = <<>>
    /\ df = <<>>
    /\ IdleGet /\ IdleFlatten /\ IdleDb

NextRead == ReadData

SpecRead == InitRead /\ [][NextRead]_vars

\* v is one of the ", "-separated stretches of s
IsSegment(v, s) ==
    \E i \in 1..Len(s) :
        /\ i + Len(v) - 1 <= Len(s)
        /\ SubSeq(s, i, i + Len(v) - 1) = v
        /\ i = 1 \/ (i > 2 /\ SubSeq(s, i - 2, i - 1) = Sep)
        /\ i + Len(v) - 1 = Len(s)
            \/ (i + Len(v) + 1 <= Len(s) /\ SubSeq(s, i + Len(v), i + Len(v) + 1) = Sep)

\* the row of frame for name n
EntryOf(frame, n) == frame[CHOOSE k \in 1..Len(frame) : frame[k].name = n]

-----------------------------------------------------------------------------
(* C7 *)

\* C7: read_data returns exactly one entry per distinct name of the input, and
\* every record's non-empty normalized value in a non-key column is one of the
\* ", "-joined members of that column in the entry of the record's name.
C7_AggregationComplete ==
    pc = "read_done" =>
        /\ Len(df) = Cardinality({records[i].name : i \in 1..Len(records)})
        /\ \A k, l \in 1..Len(df) : df[k].name = df[l].name => k = l
        /\ \A i \in 1..Len(records) :
            /\ \E k \in 1..Len(df) : df[k].name = records[i].name
            /\ \A c \in ValueCols :
                canon[i][c] # <<>> => IsSegment(canon[i][c], EntryOf(df, canon[i].name)[c])

C7_Witness ==
    /\ pc = "read_done"
    /\ Len(records) >= 2
    /\ Len(df) = 1
    /\ records[1].set_name # records[2].set_name
    /\ Len(df[1].set_name) = 4

-----------------------------------------------------------------------------
(* C8 *)

\* C8: empty values of a group never become members of the joined column (no
\* leading, trailing or doubled separator), and a column is the empty string
\* exactly when every record of the group is empty in it.
C8_EmptiesExcluded ==
    pc = "read_done" =>
        \A k \in 1..Len(df) : \A c \in ValueCols :
            /\ <<>> \notin Split(df[k][c])
            /\ df[k][c] = <<>> <=>
                  \A i \in 1..Len(records) :
                      FillNa(ReadJsonCell(records[i].name)) = df[k].name => canon[i][c] = <<>>

C8_Witness ==
    /\ pc = "read_done"
    /\ \E i, j \in 1..Len(records) :
        /\ records[i].name = records[j].name
        /\ records[i].rarity = <<"r">>
        /\ records[j].rarity = <<>>
        /\ EntryOf(df, records[i].name).rarity = <<"r">>

-----------------------------------------------------------------------------
(* update_db *)

\* a column no statement has set (deck is never in the row dictionaries)
SqlNull == <<"NULL">>

\* scryfall_table.insert() with the row's values (line 199): deck is not given
NewRow(row) ==
    [name |-> row.name, set_name |-> row.set_name, rarity |-> row.rarity,
     colors |-> row.colors, cmc |-> row.cmc, type_line |-> row.type_line, deck |-> SqlNull]

\* the primary key rejects the insert (IntegrityError, line 200)
Conflicts(t, row) == \E r \in t : r.name = row.name

\* scryfall_table.update().where(name == row["name"]) with the row's values
\* (lines 201-204): the columns of the dictionary are set, deck is left alone
UpdatedResetDeck(r, row) == NewRow(row)
UpdatedMerge(r, row) ==
    [name |-> row.name, set_name |-> r.set_name \o Sep \o row.set_name, rarity |-> row.rarity,
     colors |-> row.colors, cmc |-> row.cmc, type_line |-> row.type_line, deck |-> r.deck]
UpdatedKeepCmc(r, row) ==
    [name |-> row.name, set_name |-> row.set_name, rarity |-> row.rarity,
     colors |-> row.colors, cmc |-> r.cmc, type_line |-> row.type_line, deck |-> r.deck]
Updated(r, row) ==
    [name |-> row.name, set_name |-> row.set_name, rarity |-> row.rarity,
     colors |-> row.colors, cmc |-> row.cmc, type_line |-> row.type_line, deck |-> r.deck]

UpdateWhere(t, row) == {IF r.name = row.name THEN Updated(r, row) ELSE r : r \in t}

\* what is committed after a statement has run on the connection: execute opens
\* a transaction and commits nothing (the one commit is line 208)
AfterExecute(committed, working) == committed

\* lines 167-194: create the table if it is missing, open the connection
Connect ==
    /\ pc = "update_db"
    /\ run < MaxRuns
    /\ exists' = TRUE
    /\ txn' = table
    /\ table0' = table
    /\ idx' = 1
    /\ run' = run + 1
    /\ pc' = "loop"
    /\ UNCHANGED <<raised, logged, table, rows, table1, getVars, flatVars, readVars>>

\* lines 196-199: the insert of the row succeeds
InsertRow ==
    /\ pc = "loop"
    /\ idx <= Len(rows)
    /\ ~Conflicts(txn, rows[idx])
    /\ txn' = txn \cup {NewRow(rows[idx])}
    /\ table' = AfterExecute(table, txn')
    /\ idx' = idx + 1
    /\ UNCHANGED <<pc, raised, logged, exists, rows, run, table0, table1,
                   getVars, flatVars, readVars>>

\* lines 196-204: the insert raises IntegrityError and the update succeeds
UpdateOnConflict ==
    /\ pc = "loop"
    /\ idx <= Len(rows)
    /\ Conflicts(txn, rows[idx])
    /\ txn' = UpdateWhere(txn, rows[idx])
    /\ table' = AfterExecute(table, txn')
    /\ idx' = idx + 1
    /\ UNCHANGED <<pc, raised, logged, exists, rows, run, table0, table1,
                   getVars, flatVars, readVars>>

\* lines 199 and 205-207: the insert raises another error: it is logged with the
\* row and raised again; leaving the with block closes the connection, which
\* rolls back what was not committed
InsertFails ==
    /\ pc = "loop"
    /\ idx <= Len(rows)
    /\ logged' = Append(logged, ErrorMessage("Exception", "Error processing row ", rows[idx]))
    /\ raised' = "StorageError"
    /\ txn' = table
    /\ pc' = "raised"
    /\ UNCHANGED <<exists, table, rows, idx, run, table0, table1, getVars, flatVars, readVars>>

\* lines 200-204: the insert raises IntegrityError and the update raises an
\* error inside the except block: no other except clause of the same try
\* handles it, so it leaves update_db without being logged
UpdateFails ==
    /\ pc = "loop"
    /\ idx <= Len(rows)
    /\ Conflicts(txn, rows[idx])
    /\ raised' = "StorageError"
    /\ txn' = table
    /\ pc' = "raised"
    /\ UNCHANGED <<logged, exists, table, rows, idx, run, table0, table1,
                   getVars, flatVars, readVars>>

\* line 208: connection.commit() after the last row, and the return
Commit ==
    /\ pc = "loop"
    /\ idx > Len(rows)
    /\ table' = txn
    /\ table1' = IF run = 1 THEN txn ELSE table1
    /\ pc' = "returned"
    /\ UNCHANGED <<raised, logged, exists, txn, rows, idx, run, table0,
                   getVars, flatVars, readVars>>

\* update_db is called again with the same frame
CallAgain ==
    /\ pc = "returned"
    /\ run < MaxRuns
    /\ pc' = "update_db"
    /\ UNCHANGED <<raised, logged, dbVars, getVars, flatVars, readVars>>

\* the values an entry can hold in its value columns
EntryValues ==
    {[set_name |-> <<"A">>, rarity |-> <<"r">>, colors |-> <<"R">>,
      cmc |-> <<"1">>, type_line |-> <<"I">>],
     [set_name |-> <<"A", ",", " ", "B">>, rarity |-> <<"r", ",", " ", "u">>,
      colors |-> <<"R", ",", " ", "G">>, cmc |-> <<"2">>, type_line |-> <<"C">>]}

Entry(n, e) ==
    [name |-> n, set_name |-> e.set_name, rarity |-> e.rarity, colors |-> e.colors,
     cmc |-> e.cmc, type_line |-> e.type_line]

Entries == {Entry(n, e) : n \in Names, e \in EntryValues}

\* frames with at most one entry per name
Frames ==
    {<<>>} \cup {<<a>> : a \in Entries}
           \cup {p \in Entries \X Entries : p[1].name # p[2].name}

Decks == {SqlNull, <<"C">>}

\* the rows a table may hold for one name before the call
StoredRows(n) ==
    {{}} \cup {{[name |-> n, set_name |-> e.set_name, rarity |-> e.rarity,
                 colors |-> e.colors, cmc |-> e.cmc, type_line |-> e.type_line,
                 deck |-> d]} : e \in EntryValues, d \in Decks}

Tables == {a \cup b : a \in StoredRows(<<"A">>), b \in StoredRows(<<"B">>)}

InitDb ==
    /\ pc = "update_db"
    /\ raised = ""
    /\ logged = <<>>
    /\ exists \in BOOLEAN
    /\ table \in (IF exists THEN Tables ELSE {{}})
    /\ txn = {}
    /\ rows \in Frames
    /\ idx = 0
    /\ run = 0
    /\ table0 = table
    /\ table1 = {}
    /\ IdleGet /\ IdleFlatten /\ IdleRead

NextDb == Connect \/ InsertRow \/ UpdateOnConflict \/ InsertFails \/ UpdateFails
            \/ Commit \/ CallAgain

SpecDb == InitDb /\ [][NextDb]_vars

-----------------------------------------------------------------------------
(* main: get_data when the snapshot file is missing, read_data, update_db *)

\* lines 215-216: update_db(df)
CallUpdateDb ==
    /\ pc = "read_done"
    /\ rows' = df
    /\ pc' = "update_db"
    /\ UNCHANGED <<raised, logged, exists, table, txn, idx, run, table0, table1,
                   getVars, flatVars, readVars>>

\* the path __main__ passes (lines 220-224): today's default_cards snapshot
DefaultFile == "default_cards"

FileExists(fs, name) == \E f \in fs : f.name = name
FileContent(fs, name) == (CHOOSE f \in fs : f.name = name).content

\* lines 213-214: without a path, or when the path does not exist, main calls
\* get_data(BulkDataType.DEFAULT); otherwise read_data reads the file given
MainStart ==
    /\ pc = "main"
    /\ IF file = "" \/ ~FileExists(files, file)
       THEN /\ data_type' = "default_cards"
            /\ pc' = "get_data"
            /\ UNCHANGED records
       ELSE /\ records' = FileContent(files, file)
            /\ pc' = "read_data"
            /\ UNCHANGED data_type
    /\ UNCHANGED <<raised, logged, response, file_url, file_response, files, file,
                   canon, df, flatVars, dbVars>>

\* lines 121, 214-215 and 148: get_data returns the name of the file it wrote,
\* main keeps it in file and read_data reads that file
MainGotFile ==
    /\ pc = "downloaded"
    /\ file' = data_type
    /\ records' = FileContent(files, data_type)
    /\ pc' = "read_data"
    /\ UNCHANGED <<raised, logged, data_type, response, file_url, file_response, files,
                   canon, df, flatVars, dbVars>>

\* the tables a run of main may find
MainTables ==
    {{}} \cup {{[name |-> <<"A">>, set_name |-> <<"A">>, rarity |-> <<"r">>, colors |-> <<"R">>,
                 cmc |-> <<"1">>, type_line |-> <<"I">>, deck |-> <<"C">>]}}

InitMain ==
    /\ pc = "main"
    /\ raised = ""
    /\ logged = <<>>
    /\ file \in {"", DefaultFile}
    /\ files \in {{}} \cup {{[name |-> DefaultFile, content |-> c]} : c \in Contents}
    /\ data_type = ""
    /\ response = [status_code |-> 0, data |-> <<>>]
    /\ file_url = ""
    /\ file_response = [status_code |-> 0, content |-> <<>>]
    /\ records = <<>>
    /\ canon = <<>>
    /\ df = <<>>
    /\ exists \in BOOLEAN
    /\ table \in (IF exists THEN MainTables ELSE {{}})
    /\ txn = {}
    /\ rows = <<>>
    /\ idx = 0
    /\ run = 0
    /\ table0 = table
    /\ table1 = {}
    /\ IdleFlatten

\* one call of main: get_data when there is no file, read_data, update_db once
NextMain ==
    \/ MainStart \/ FetchMetadata \/ FindDescriptor \/ Download \/ MainGotFile
    \/ ReadData \/ CallUpdateDb
    \/ Connect \/ InsertRow \/ UpdateOnConflict \/ InsertFails \/ UpdateFails \/ Commit

SpecMain == InitMain /\ [][NextMain]_vars

\* the value columns of table row r are those of entry e
SameValues(r, e) ==
    /\ r.set_name = e.set_name
    /\ r.rarity = e.rarity
    /\ r.colors = e.colors
    /\ r.cmc = e.cmc
    /\ r.type_line = e.type_line

RowsNamed(t, n) == {r \in t : r.name = n}

-----------------------------------------------------------------------------
(* C1 *)

\* C1: when update_db has returned, for every name of the frame the table holds
\* exactly one row of that name, and its set_name, rarity, colors, cmc and
\* type_line are those of the entry passed in.
C1_UpsertStoresEntry ==
    pc = "returned" =>
        \A i \in 1..Len(rows) :
            /\ Cardinality(RowsNamed(table, rows[i].name)) = 1
            /\ \A r \in RowsNamed(table, rows[i].name) : SameValues(r, rows[i])

C1_Witness ==
    /\ pc = "returned"
    /\ run = 1
    /\ Len(rows) = 2
    /\ RowsNamed(table0, rows[1].name) = {}
    /\ \E r \in RowsNamed(table0, rows[2].name) : ~SameValues(r, rows[2])

-----------------------------------------------------------------------------
(* C2 *)

\* C2: when update_db has returned, a name that had a row before the call keeps
\* the deck it had while its other columns are the entry's, and a name that had
\* no row has a row whose deck was never set.
C2_DeckPreserved ==
    pc = "returned" =>
        \A i \in 1..Len(rows) : \A r \in RowsNamed(table, rows[i].name) :
            /\ \A old \in RowsNamed(table0, rows[i].name) :
                    r.deck = old.deck /\ SameValues(r, rows[i])
            /\ RowsNamed(table0, rows[i].name) = {} => r.deck = SqlNull

C2_Witness ==
    /\ pc = "returned"
    /\ run = 1
    /\ \E i \in 1..Len(rows) : \E old \in RowsNamed(table0, rows[i].name) :
        /\ old.deck = <<"C">>
        /\ ~SameValues(old, rows[i])
        /\ \E r \in RowsNamed(table, rows[i].name) : r.deck = <<"C">> /\ SameValues(r, rows[i])

-----------------------------------------------------------------------------
(* C3 *)

\* C3: a second call of update_db with the same frame only takes the update
\* path and leaves the table, deck included, as the first call left it.
C3_SecondRunChangesNothing ==
    /\ (pc = "returned" /\ run >= 2) => table = table1
    /\ (pc = "loop" /\ run >= 2 /\ idx <= Len(rows)) => Conflicts(txn, rows[idx]) /\ txn = table1

C3_Witness ==
    /\ pc = "returned"
    /\ run = 2
    /\ Len(rows) = 2
    /\ table = table1
    /\ \E r \in table : r.name = rows[1].name /\ r.deck = <<"C">>
    /\ \E r \in table : r.name = rows[2].name /\ r.deck = SqlNull

-----------------------------------------------------------------------------
(* C4 *)

\* C4: when the k-th row fails with a storage error, rows 1..k-1 of the run,
\* already inserted or updated, are committed in the table.
C4_EarlierRowsCommitted ==
    (pc = "raised" /\ raised = "StorageError") =>
        \A k \in 1..(idx - 1) :
            \E r \in RowsNamed(table, rows[k].name) : SameValues(r, rows[k])

-----------------------------------------------------------------------------
(* C5 *)

\* C5 (as claimed): a storage error on the insert or on the update after a
\* conflict is logged with the offending row and raised, and no later row is
\* inserted or updated.
C5_StorageErrorLoggedWithRow ==
    (pc = "raised" /\ raised = "StorageError") =>
        /\ Len(logged) > 0
        /\ logged[Len(logged)].arg = rows[idx]
        /\ \A k \in idx..Len(rows) :
              RowsNamed(table, rows[k].name) = RowsNamed(table0, rows[k].name)

-----------------------------------------------------------------------------
(* C6 *)

\* C6 (as claimed): when a record lacks the name key and another has it, the
\* run ends with an error before any row is inserted or updated, and the
\* record is not grouped under another key.
C6_MissingNameAborts ==
    (\E i, j \in 1..Len(records) : records[i].name = Missing /\ records[j].name # Missing) =>
        /\ pc \in {"loop", "returned"} => txn = table0
        /\ table = table0
        /\ pc # "returned"

-----------------------------------------------------------------------------
(* C10 *)

\* C10 (as claimed): when the download request fails, the DownloadError message
\* names the status code of the download response, and no file is written.
C10_DownloadErrorNamesDownloadStatus ==
    raised = "DownloadError" =>
        /\ logged[Len(logged)].arg = file_response.status_code
        /\ files = {}

-----------------------------------------------------------------------------
(* C9 *)

\* C9 (as claimed): flatten_list applied to its own output yields the same set
\* of color codes joined the same way.
C9_FlattenIdempotent ==
    pc = "flattened" => flat2 \in JoinOrders(Split(flat1))

\* C9 (amended): flatten_list applied to its own output returns it unchanged
\* when the output is empty or a single one-character code; a longer output is
\* read character by character, so the result joins its distinct characters,
\* "," and " " included, and is not a joining of the same codes.
C9_ReflattenSingleCode ==
    pc = "flattened" =>
        /\ Len(flat1) <= 1 => flat2 = flat1
        /\ Len(flat1) > 1 =>
            /\ flat2 \in JoinOrders(Chars(flat1))
            /\ flat2 \notin JoinOrders(Split(flat1))

C9_Witness == pc = "flattened" /\ Len(flat1) = 1 /\ color_list.t = "list"

====
